---- MODULE Spec2Model ----
(***************************************************************************)
(* Model of the WebSocket connection registry and broadcast fanout of      *)
(* mcm-alerts-aws: src/aws/broadcast.py, src/aws/connection_handler.py and *)
(* src/aws/api_handler.py.                                                 *)
(*                                                                         *)
(* The connections table is the only shared state.  Every handler runs as  *)
(* an independent invocation; an invocation of an API handler that calls   *)
(* broadcast_message takes one step per remote call (scan, each            *)
(* post_to_connection, each delete_item), so that invocations interleave   *)
(* exactly at the remote calls.                                            *)
(***************************************************************************)
EXTENDS Integers, Sequences, FiniteSets, TLC

\* ------------------------------------------------------------------ bounds
NumIds == 3       \* connection ids are 1..NumIds
NumProcs == 2     \* concurrent API-handler invocations
NumUsers == 2     \* authenticated users (the 'sub' claim) are 1..NumUsers
NumPlayers == 2   \* device player ids are 1..NumPlayers

\* A scan returns one page only (DynamoDB stops a page at 1 MB of data); the
\* page holds PageSize items here.
PageSize == 2

Ids == 1..NumIds
NoId == 0         \* requestContext carries no connectionId
Procs == 1..NumProcs
Users == 1..NumUsers
NoUser == 0       \* no 'sub' claim in the event; also: no device record stored
Players == 1..NumPlayers
NoPlayer == 0     \* no playerId in the request

StorageOutcomes == {"ok", "error"}                \* a DynamoDB call returns or raises
SendOutcomes == {"Delivered", "Gone", "Failed"}   \* post_to_connection
Requests == {"unauth", "badbody", "missing", "ok"}
\* notifications_table.update_item(ReturnValues="ALL_NEW") passes neither Key
\* nor an update expression: botocore rejects the call before it is sent.
UpdateItemOutcomes == {"error"}

VARIABLES
    registry,   \* connections table: the set of stored connectionId keys
    dead,       \* connection ids whose endpoint the transport has closed
    last,       \* the last lifecycle handler invocation and its response
    inv,        \* inv[p]: the API-handler invocation running in slot p
    had,        \* whether the key of the last lifecycle call was stored before it
    devices,    \* devices table: player_id -> user_id of its record (NoUser: none)
    dev         \* the last device handler invocation and its response

vars == <<registry, dead, last, inv, had, devices, dev>>

\* ------------------------------------------------------------- pure helpers
Range(s) == {s[i] : i \in 1..Len(s)}

Min(a, b) == IF a <= b THEN a ELSE b

RECURSIVE SortedSeq(_)
SortedSeq(S) ==
    IF S = {} THEN <<>>
    ELSE LET m == CHOOSE a \in S : \A b \in S : a <= b
         IN  <<m>> \o SortedSeq(S \ {m})

\* connections_table.scan(ProjectionExpression='connectionId') followed by
\* response.get('Items', []): the first page of the table in the store's key
\* order; LastEvaluatedKey is never followed.
ScanPage(reg) == SubSeq(SortedSeq(reg), 1, Min(PageSize, Cardinality(reg)))

\* delete_item(Key=...) carries no condition: deleting an absent key succeeds.
DeleteOutcomeStrict(reg, x, st) == IF x \in reg THEN st ELSE "error"
DeleteOutcome(reg, x, st) == st

\* put_item(Item=...) carries no condition: an existing key is overwritten.
PutOutcomeStrict(reg, x, st) == IF x \in reg THEN "error" ELSE st
PutOutcome(reg, x, st) == st

\* The table after put_item(Item={'connectionId': x}) returned.
AfterPutReplaceAll(reg, x) == {x}
AfterPut(reg, x) == reg \cup {x}

\* default_handler touches no table.
AfterDefaultRegister(reg, cid) == reg \cup ({cid} \cap Ids)
AfterDefault(reg, cid) == reg

\* make_response of connection_handler.py after the table write.
LifecycleStatusAck(st) == 200
LifecycleStatus(st) == IF st = "ok" THEN 200 ELSE 500

\* broadcast_message wraps its whole body in try / except Exception: whatever
\* ended the broadcast, nothing is raised to the caller.
BroadcastRaisesOnDelete(bstat) == bstat = "aborted_delete"
BroadcastRaisesOnScan(bstat) == bstat = "aborted_scan"
BroadcastRaises(bstat) == FALSE

\* The response of add_comment_handler / update_notification_handler once
\* broadcast_message is back: make_response(201, new_comment) or
\* make_response(200, updated_attributes), 500 from the handler's own except.
HandlerResponse(kind, raised, bodyOK) ==
    IF raised \/ ~bodyOK THEN 500
    ELSE IF kind = "comment" THEN 201 ELSE 200

Idle ==
    [pc |-> "idle", kind |-> "none", wrote |-> FALSE, payloadOK |-> TRUE,
     snap |-> <<>>, idx |-> 0, sent |-> {}, gone |-> {}, failed |-> {},
     deleted |-> {}, bstat |-> "none", ret |-> "unset", resp |-> 0]

NoLifecycle == [op |-> "none", id |-> NoId, storage |-> "none", status |-> 0]

NoDevice == [op |-> "none", user |-> NoUser, player |-> NoPlayer,
             storage |-> "none", status |-> 0]

\* broadcast_message ends in state bstat and returns None (it has no return
\* statement); back in the handler, make_response builds the response.
Finish(r, bstat) ==
    [r EXCEPT !.pc = "done", !.bstat = bstat, !.ret = "None",
              !.resp = HandlerResponse(r.kind, BroadcastRaises(bstat), r.payloadOK)]

\* The loop of broadcast_message moves to the next connection id, or ends.
Advance(r) ==
    IF r.idx + 1 > Len(r.snap)
    THEN Finish([r EXCEPT !.idx = r.idx + 1], "completed")
    ELSE [r EXCEPT !.idx = r.idx + 1, !.pc = "send"]

\* The try / except of one post_to_connection.
AfterSendPruneAlways(r, x, o) ==
    LET s == [r EXCEPT !.sent = r.sent \cup {x}]
    IN  CASE o = "Delivered" -> [s EXCEPT !.pc = "delete"]
          [] o = "Gone"      -> [s EXCEPT !.gone = s.gone \cup {x}, !.pc = "delete"]
          [] OTHER           -> Advance([s EXCEPT !.failed = s.failed \cup {x}])
AfterSendPruneOnAnyError(r, x, o) ==
    LET s == [r EXCEPT !.sent = r.sent \cup {x}]
    IN  CASE o = "Delivered" -> Advance(s)
          [] o = "Gone"      -> [s EXCEPT !.gone = s.gone \cup {x}, !.pc = "delete"]
          [] OTHER           -> [s EXCEPT !.failed = s.failed \cup {x}, !.pc = "delete"]
AfterSend(r, x, o) ==
    LET s == [r EXCEPT !.sent = r.sent \cup {x}]
    IN  CASE o = "Delivered" -> Advance(s)
          [] o = "Gone"      -> [s EXCEPT !.gone = s.gone \cup {x}, !.pc = "delete"]
          [] OTHER           -> Advance([s EXCEPT !.failed = s.failed \cup {x}])

\* delete_item(Key, ConditionExpression="user_id = :uid"): the store deletes
\* only if the stored item's user_id equals the caller's; for an absent item
\* the condition is false.
ConditionHoldsExists(devs, player, user) == devs[player] # NoUser
ConditionHolds(devs, player, user) == devs[player] = user

\* broadcast_message is called on the line after the durable write (put_item,
\* update_item), inside the same try: it is reached only if the write returned.
StartsBroadcastAlways(st) == TRUE
StartsBroadcast(st) == st = "ok"

\* The table after delete_item(Key={'connectionId': x}) returned.
AfterDeleteKeep(reg, x) == reg
AfterDelete(reg, x) == reg \ {x}

\* ------------------------------------------------------------------- state
TypeOK ==
    /\ registry \subseteq Ids
    /\ dead \subseteq Ids
    /\ last.op \in {"none", "connect", "disconnect", "default"}
    /\ \A p \in Procs :
        /\ inv[p].pc \in {"idle", "scan", "send", "blocked", "delete", "done"}
        /\ inv[p].sent \subseteq Range(inv[p].snap)
    /\ had \in BOOLEAN
    /\ devices \in [Players -> Users \cup {NoUser}]
    /\ dev.op \in {"none", "register", "unregister"}
    /\ dev.user \in Users \cup {NoUser}
    /\ dev.player \in Players \cup {NoPlayer}
    /\ dev.storage \in StorageOutcomes \cup {"none"}

Init ==
    /\ registry = {}
    /\ dead = {}
    /\ last = NoLifecycle
    /\ inv = [p \in Procs |-> Idle]
    /\ had = FALSE
    /\ devices = [d \in Players |-> NoUser]
    /\ dev = NoDevice

\* ------------------------------------------------- connection_handler.py
connect_handler(cid, st) ==
    /\ IF cid = NoId
       THEN /\ last' = [op |-> "connect", id |-> NoId, storage |-> "none", status |-> 400]
            /\ UNCHANGED registry
       ELSE /\ registry' = IF PutOutcome(registry, cid, st) = "ok"
                           THEN AfterPut(registry, cid) ELSE registry
            /\ last' = [op |-> "connect", id |-> cid, storage |-> st,
                        status |-> LifecycleStatus(PutOutcome(registry, cid, st))]
    /\ UNCHANGED <<inv, devices, dev>>

disconnect_handler(cid, st) ==
    /\ IF cid = NoId
       THEN /\ last' = [op |-> "disconnect", id |-> NoId, storage |-> "none", status |-> 400]
            /\ UNCHANGED registry
       ELSE /\ registry' = IF DeleteOutcome(registry, cid, st) = "ok"
                           THEN AfterDelete(registry, cid) ELSE registry
            /\ last' = [op |-> "disconnect", id |-> cid, storage |-> st,
                        status |-> LifecycleStatus(DeleteOutcome(registry, cid, st))]
    /\ UNCHANGED <<inv, devices, dev>>

\* default_handler reads the connection id (None when absent), prints, and
\* answers 200.
default_handler(cid) ==
    /\ registry' = AfterDefault(registry, cid)
    /\ last' = [op |-> "default", id |-> cid, storage |-> "none", status |-> 200]
    /\ UNCHANGED <<inv, devices, dev>>

\* ---------------------------------------------------------- api_handler.py
\* add_comment_handler up to and including comments_table.put_item; with the
\* comment stored it calls broadcast_message.
add_comment_handler(p, req, st) ==
    /\ inv[p].pc = "idle"
    /\ inv' = [inv EXCEPT ![p] =
         CASE req = "unauth"  -> [Idle EXCEPT !.pc = "done", !.kind = "comment", !.resp = 401]
           [] req = "badbody" -> [Idle EXCEPT !.pc = "done", !.kind = "comment", !.resp = 500]
           [] req = "missing" -> [Idle EXCEPT !.pc = "done", !.kind = "comment", !.resp = 400]
           [] OTHER ->
                IF StartsBroadcast(st)
                THEN [Idle EXCEPT !.pc = "scan", !.kind = "comment", !.wrote = (st = "ok")]
                ELSE [Idle EXCEPT !.pc = "done", !.kind = "comment", !.resp = 500]]
    /\ UNCHANGED <<registry, dead, last, had, devices, dev>>

\* update_notification_handler up to and including update_item; attrsOK says
\* whether the returned attributes are JSON-serialisable.
update_notification_handler(p, req, st, attrsOK) ==
    /\ inv[p].pc = "idle"
    /\ inv' = [inv EXCEPT ![p] =
         CASE req = "unauth"  -> [Idle EXCEPT !.pc = "done", !.kind = "update", !.resp = 401]
           [] req = "missing" -> [Idle EXCEPT !.pc = "done", !.kind = "update", !.resp = 400]
           [] req = "badbody" -> [Idle EXCEPT !.pc = "done", !.kind = "update", !.resp = 500]
           [] OTHER ->
                IF StartsBroadcast(st)
                THEN [Idle EXCEPT !.pc = "scan", !.kind = "update", !.wrote = (st = "ok"),
                                  !.payloadOK = attrsOK]
                ELSE [Idle EXCEPT !.pc = "done", !.kind = "update", !.resp = 500]]
    /\ UNCHANGED <<registry, dead, last, had, devices, dev>>

\* The invocation is over; its slot takes the next request.
invocation_end(p) ==
    /\ inv[p].pc = "done"
    /\ inv' = [inv EXCEPT ![p] = Idle]
    /\ UNCHANGED <<registry, dead, last, had, devices, dev>>

\* ------------------------------------------- api_handler.py, device records
\* bodyOK: the request body parses as JSON.
register_device_handler(user, player, bodyOK, st) ==
    LET status == IF user = NoUser THEN 401
                  ELSE IF ~bodyOK THEN 500
                  ELSE IF player = NoPlayer THEN 400
                  ELSE IF st = "ok" THEN 201 ELSE 500
        reached == user # NoUser /\ bodyOK /\ player # NoPlayer
    IN  /\ devices' = IF status = 201 THEN [devices EXCEPT ![player] = user]
                      ELSE devices
        /\ dev' = [op |-> "register", user |-> user, player |-> player,
                   storage |-> IF reached THEN st ELSE "none", status |-> status]
        /\ UNCHANGED <<registry, dead, last, inv, had>>

unregister_device_handler(user, player, st) ==
    LET status == IF user = NoUser THEN 401
                  ELSE IF player = NoPlayer THEN 400
                  ELSE IF st # "ok" THEN 500
                  ELSE IF ConditionHolds(devices, player, user) THEN 200 ELSE 403
        reached == user # NoUser /\ player # NoPlayer
    IN  /\ devices' = IF status = 200 THEN [devices EXCEPT ![player] = NoUser]
                      ELSE devices
        /\ dev' = [op |-> "unregister", user |-> user, player |-> player,
                   storage |-> IF reached THEN st ELSE "none", status |-> status]
        /\ UNCHANGED <<registry, dead, last, inv, had>>

\* ------------------------------------------------------------ broadcast.py
\* Steps 1-3: the management client, the scan, json.dumps(payload).
broadcast_scan(p, st) ==
    /\ inv[p].pc = "scan"
    /\ inv' = [inv EXCEPT ![p] =
         IF st # "ok"
         THEN Finish(inv[p], "aborted_scan")
         ELSE LET s == ScanPage(registry)
              IN  IF ~inv[p].payloadOK
                  THEN Finish([inv[p] EXCEPT !.snap = s], "aborted_dumps")
                  ELSE IF s = <<>>
                  THEN Finish([inv[p] EXCEPT !.snap = s], "completed")
                  ELSE [inv[p] EXCEPT !.snap = s, !.idx = 1, !.pc = "send",
                                      !.bstat = "running"]]
    /\ UNCHANGED <<registry, dead, last, had, devices, dev>>

\* Step 4: one post_to_connection and the except clause it lands in.
broadcast_send(p, o) ==
    /\ inv[p].pc = "send"
    /\ inv' = [inv EXCEPT ![p] = AfterSend(inv[p], inv[p].snap[inv[p].idx], o)]
    /\ UNCHANGED <<registry, dead, last, had, devices, dev>>

\* Step 5: delete_item inside the GoneException clause.  If it raises, the
\* exception leaves the for loop and is caught by the outer except.
broadcast_delete(p, st) ==
    /\ inv[p].pc = "delete"
    /\ LET x == inv[p].snap[inv[p].idx]
       IN  IF DeleteOutcome(registry, x, st) = "ok"
           THEN /\ registry' = AfterDelete(registry, x)
                /\ inv' = [inv EXCEPT ![p] =
                             Advance([inv[p] EXCEPT !.deleted = inv[p].deleted \cup {x}])]
           ELSE /\ registry' = registry
                /\ inv' = [inv EXCEPT ![p] = Finish(inv[p], "aborted_delete")]
    /\ UNCHANGED <<dead, last, had, devices, dev>>

\* ------------------------------------------------------- specification Spec
\* Any storage call may fail and any send may have any outcome.
Next ==
    \/ \E cid \in Ids \cup {NoId}, st \in StorageOutcomes :
          connect_handler(cid, st) /\ UNCHANGED <<dead, had>>
    \/ \E cid \in Ids \cup {NoId}, st \in StorageOutcomes :
          disconnect_handler(cid, st) /\ UNCHANGED <<dead, had>>
    \/ \E p \in Procs, req \in Requests, st \in StorageOutcomes :
          add_comment_handler(p, req, st)
    \/ \E p \in Procs, req \in Requests, st \in UpdateItemOutcomes, a \in BOOLEAN :
          update_notification_handler(p, req, st, a)
    \/ \E p \in Procs, st \in StorageOutcomes : broadcast_scan(p, st)
    \/ \E p \in Procs, o \in SendOutcomes : broadcast_send(p, o)
    \/ \E p \in Procs, st \in StorageOutcomes : broadcast_delete(p, st)
    \/ \E p \in Procs : invocation_end(p)

Spec == Init /\ [][Next]_vars

\* -------------------------------------------------- specification SpecAvail
\* Registry storage is available and the transport answers faithfully: a send
\* to a connection it has closed raises GoneException, a send to an open one is
\* delivered or fails otherwise (throttling, a network error).
FaithfulOutcomes(x) == IF x \in dead THEN {"Gone"} ELSE {"Delivered", "Failed"}

\* The transport loses a client without a $disconnect reaching the handlers.
transport_drop(x) ==
    /\ x \notin dead
    /\ dead' = dead \cup {x}
    /\ UNCHANGED <<registry, last, inv, had, devices, dev>>

BroadcastStep(p) ==
    \/ broadcast_scan(p, "ok")
    \/ /\ inv[p].pc = "send"
       /\ \E o \in FaithfulOutcomes(inv[p].snap[inv[p].idx]) : broadcast_send(p, o)
    \/ broadcast_delete(p, "ok")

NextAvail ==
    \/ \E cid \in Ids \cup {NoId} : connect_handler(cid, "ok") /\ dead' = dead \ {cid} /\ UNCHANGED had
    \/ \E cid \in Ids \cup {NoId} :
          /\ disconnect_handler(cid, "ok")
          /\ dead' = dead \cup ({cid} \cap Ids)
          /\ UNCHANGED had
    \/ \E x \in Ids : transport_drop(x)
    \/ \E p \in Procs, req \in Requests : add_comment_handler(p, req, "ok")
    \/ \E p \in Procs : BroadcastStep(p)
    \/ \E p \in Procs : invocation_end(p)

SpecAvail == Init /\ [][NextAvail]_vars

\* --------------------------------------------------- specification SpecHeal
\* As SpecAvail, from any registry that connects have filled, and with no
\* connect or disconnect signal arriving any more: only broadcasts touch the
\* registry.  Every invocation that has started runs on, and comments keep
\* being posted.
InitHeal ==
    /\ registry \in SUBSET Ids
    /\ dead \in SUBSET registry
    /\ last = NoLifecycle
    /\ inv = [p \in Procs |-> Idle]
    /\ had = FALSE
    /\ devices = [d \in Players |-> NoUser]
    /\ dev = NoDevice

NextHeal ==
    \/ \E x \in registry : transport_drop(x)
    \/ \E p \in Procs, req \in Requests : add_comment_handler(p, req, "ok")
    \/ \E p \in Procs : BroadcastStep(p)
    \/ \E p \in Procs : invocation_end(p)

FairHeal ==
    \A p \in Procs :
        /\ WF_vars(BroadcastStep(p))
        /\ WF_vars(invocation_end(p))
        /\ SF_vars(add_comment_handler(p, "ok", "ok"))

SpecHeal == InitHeal /\ [][NextHeal]_vars /\ FairHeal

\* -------------------------------------------------- specification SpecStall
\* SpecHeal plus an endpoint that does not answer.  The client is built
\* without a Config and the call is not wrapped in any timer, so the program
\* has nothing that ends a post_to_connection which does not return.
broadcast_send_blocks(p) ==
    /\ inv[p].pc = "send"
    /\ inv' = [inv EXCEPT ![p] =
                 [inv[p] EXCEPT !.pc = "blocked",
                                !.sent = inv[p].sent \cup {inv[p].snap[inv[p].idx]}]]
    /\ UNCHANGED <<registry, dead, last, had, devices, dev>>

NextStall ==
    \/ \E x \in registry : transport_drop(x)
    \/ \E p \in Procs, req \in Requests : add_comment_handler(p, req, "ok")
    \/ \E p \in Procs : BroadcastStep(p)
    \/ \E p \in Procs : broadcast_send_blocks(p)
    \/ \E p \in Procs : invocation_end(p)

SpecStall == InitHeal /\ [][NextStall]_vars /\ FairHeal

\* --------------------------------------------------- specification SpecLife
\* The lifecycle handlers alone, any storage outcome: connect, disconnect and
\* unrecognised messages arrive in any order while no broadcast runs.
NextLife ==
    \/ \E cid \in Ids \cup {NoId}, st \in StorageOutcomes :
          connect_handler(cid, st) /\ had' = (cid \in registry) /\ UNCHANGED dead
    \/ \E cid \in Ids \cup {NoId}, st \in StorageOutcomes :
          disconnect_handler(cid, st) /\ had' = (cid \in registry) /\ UNCHANGED dead
    \/ \E cid \in Ids \cup {NoId} :
          default_handler(cid) /\ had' = (cid \in registry) /\ UNCHANGED dead

SpecLife == Init /\ [][NextLife]_vars

\* ------------------------------------------------ specification SpecDevices
\* The device handlers alone: any caller, any player id, any storage outcome.
NextDevices ==
    \/ \E u \in Users \cup {NoUser}, d \in Players \cup {NoPlayer},
          b \in BOOLEAN, st \in StorageOutcomes :
          register_device_handler(u, d, b, st)
    \/ \E u \in Users \cup {NoUser}, d \in Players \cup {NoPlayer},
          st \in StorageOutcomes :
          unregister_device_handler(u, d, st)

SpecDevices == Init /\ [][NextDevices]_vars

\* ------------------------------------------------------------------ claims
Finished(p) == inv[p].pc = "done" /\ inv[p].bstat # "none"
Delivered(p) == inv[p].sent \ (inv[p].gone \cup inv[p].failed)
SuccessCode(kind) == IF kind = "comment" THEN 201 ELSE 200

\* C1: once the loop over the snapshot has started, every id of the snapshot
\* gets a send attempt, whatever the outcomes of the other ids were (a failed
\* delete of a Gone id included).
C1_EachAttemptIsolated ==
    \A p \in Procs :
        (Finished(p) /\ inv[p].bstat \in {"completed", "aborted_delete"})
            => inv[p].sent = Range(inv[p].snap)

\* C2: a broadcast whose scan returned snapshot S attempts exactly len(S)
\* sends, and its outcomes (delivered, Gone, failed) add up to len(S).
C2_ExactlyLenSends ==
    \A p \in Procs :
        (Finished(p) /\ inv[p].bstat # "aborted_scan")
            => /\ Cardinality(inv[p].sent) = Len(inv[p].snap)
               /\ Cardinality(Delivered(p)) + Cardinality(inv[p].gone)
                    + Cardinality(inv[p].failed) = Len(inv[p].snap)

\* C3 (as claimed): an id whose send returned Gone is absent from the registry
\* when that broadcast completes.
C3_GoneIsAbsent ==
    \A p \in Procs : Finished(p) => \A x \in inv[p].gone : x \notin registry

\* C3 (amended): the broadcast issues a delete for every id whose send returned
\* Gone; a delete that succeeds leaves the id absent, and an absent id comes
\* back only through a successful connect for it.
C3_GonePrunedUnlessReconnected ==
    /\ [](\A p \in Procs : Finished(p) =>
            \A x \in inv[p].gone :
                \/ x \in inv[p].deleted
                \/ inv[p].bstat = "aborted_delete" /\ x = inv[p].snap[inv[p].idx])
    /\ [][ /\ \A p \in Procs :
                inv[p].pc = "delete"
                    => LET x == inv[p].snap[inv[p].idx]
                       IN  /\ x \in inv[p].gone
                           /\ x \in inv'[p].deleted => x \notin registry'
           /\ \A x \in Ids :
                (x \notin registry /\ x \in registry')
                    => last' = [op |-> "connect", id |-> x, storage |-> "ok",
                                status |-> 200] ]_vars

C3_Witness ==
    \E p \in Procs :
        /\ Finished(p)
        /\ \E x \in inv[p].gone \cap inv[p].deleted : x \notin registry

\* C4: a broadcast never removes an id whose send it recorded as a non-Gone
\* failure: the step that records the failure leaves the registry unchanged,
\* and any later removal of that id is a step of another operation.
C4_FailureLeavesRegistry ==
    [][ \A p \in Procs : \A x \in inv[p].failed \cup inv'[p].failed :
            (x \in registry /\ x \notin registry') => inv'[p] = inv[p] ]_vars

C4_Witness ==
    \E p \in Procs :
        /\ Finished(p) /\ inv[p].bstat = "completed"
        /\ \E x \in inv[p].failed : x \in registry

\* C5: once the durable write has succeeded the handler returns its success
\* response, however the broadcast ended.
C5_BroadcastFailureContained ==
    \A p \in Procs :
        (inv[p].pc = "done" /\ inv[p].wrote) => inv[p].resp = SuccessCode(inv[p].kind)

C5_Witness ==
    \E p \in Procs :
        /\ inv[p].pc = "done" /\ inv[p].wrote
        /\ inv[p].bstat = "aborted_delete"
        /\ inv[p].resp = 201

C7_SnapshotIsFullEnumeration ==
    [][ \A p \in Procs :
            (inv[p].pc = "scan" /\ inv'[p].pc # "scan" /\ inv'[p].bstat # "aborted_scan")
                => Range(inv'[p].snap) = registry ]_vars

\* C8 (as claimed): a connect or disconnect whose registry write failed is
\* still answered with a success acknowledgment.
C8_WriteFailureAcknowledged ==
    (last.op \in {"connect", "disconnect"} /\ last.storage = "error")
        => last.status = 200

\* C8 (amended): a connect or disconnect whose registry write failed is
\* answered with status 500; the handler raises nothing.
C8_WriteFailureReturns500 ==
    (last.op \in {"connect", "disconnect"} /\ last.storage = "error")
        => last.status = 500

C8_Witness ==
    last.op = "connect" /\ last.storage = "error" /\ last.status = 500

\* C9: when all API invocations have finished broadcasts whose snapshots hold
\* x and the last lifecycle signal was a disconnect of x, then every one of
\* those broadcasts went through its whole snapshot, raised nothing, answered
\* every Gone of x with a delete, and x is absent from the registry.
C9_ConcurrentRemovalSafe ==
    \A x \in Ids :
        ( /\ last = [op |-> "disconnect", id |-> x, storage |-> "ok", status |-> 200]
          /\ \A p \in Procs : Finished(p) /\ x \in Range(inv[p].snap) )
        => /\ \A p \in Procs :
                /\ inv[p].bstat = "completed"
                /\ inv[p].sent = Range(inv[p].snap)
                /\ inv[p].resp = 201
                /\ x \in inv[p].gone => x \in inv[p].deleted
           /\ x \notin registry

C9_Witness ==
    \E x \in Ids :
        /\ last = [op |-> "disconnect", id |-> x, storage |-> "ok", status |-> 200]
        /\ \A p \in Procs : Finished(p) /\ x \in inv[p].gone /\ x \in inv[p].deleted
        /\ x \notin registry

\* C10: a registered connection that is dead at the transport does not stay
\* registered for ever while broadcasts keep being issued and storage works.
C10_DeadEventuallyPruned ==
    \A x \in Ids : []<>(x \notin dead \/ x \notin registry)

\* C11: a broadcast that has started its fanout eventually finishes, even when
\* an endpoint does not answer.
C11_BroadcastEventuallyFinishes ==
    \A p \in Procs : (inv[p].pc = "send") ~> Finished(p)

\* C12: a connect for an id that is already registered succeeds (200) and
\* leaves the registry as it was: the id is there once, every other entry too.
C12_AddIdempotent ==
    /\ []((last.op = "connect" /\ last.id \in Ids /\ last.storage = "ok" /\ had)
            => (last.status = 200 /\ last.id \in registry))
    /\ [][ (last'.op = "connect" /\ last'.id \in Ids /\ last'.storage = "ok"
              /\ last'.id \in registry)
            => registry' = registry ]_vars

C12_Witness ==
    /\ last.op = "connect" /\ last.storage = "ok" /\ had
    /\ last.status = 200
    /\ last.id \in registry /\ registry # {last.id}

\* C13: a disconnect for an id that is not registered answers 200 and leaves
\* the registry unchanged.
C13_RemoveIdempotent ==
    /\ []((last.op = "disconnect" /\ last.id \in Ids /\ last.storage = "ok" /\ ~had)
            => (last.status = 200 /\ last.id \notin registry))
    /\ [][ (last'.op = "disconnect" /\ last'.id \in Ids /\ last'.id \notin registry)
            => registry' = registry ]_vars

C13_Witness ==
    /\ last.op = "disconnect" /\ last.id \in Ids /\ last.storage = "ok" /\ ~had
    /\ last.status = 200
    /\ registry # {}

\* C14: right after a successful connect of x the enumeration of the registry
\* (the scan) lists x, and right after a successful disconnect of a registered
\* x it does not.
C14_ConnectThenListed ==
    /\ (last.op = "connect" /\ last.id \in Ids /\ last.status = 200)
            => last.id \in Range(ScanPage(registry))
    /\ (last.op = "disconnect" /\ last.id \in Ids /\ last.status = 200 /\ had)
            => last.id \notin Range(ScanPage(registry))

\* C15: every connect with storage available answers 200 and adds its own id
\* while keeping every other entry, so connects for distinct ids, in any
\* order, all end up registered.
C15_ConcurrentConnectsKeepAll ==
    /\ []((last.op = "connect" /\ last.id \in Ids /\ last.storage = "ok")
            => (last.status = 200 /\ last.id \in registry))
    /\ [][ (last'.op = "connect" /\ last'.id \in Ids /\ last'.storage = "ok")
            => registry' = registry \cup {last'.id} ]_vars

C15_Witness ==
    /\ last.op = "connect" /\ last.storage = "ok" /\ ~had
    /\ last.status = 200
    /\ registry = Ids

\* C16: default_handler answers 200 for every message and leaves the registry
\* unchanged.
C16_DefaultIsNoOp ==
    /\ [](last.op = "default" => last.status = 200)
    /\ [][ last'.op = "default" => registry' = registry ]_vars

C16_Witness ==
    /\ last.op = "default" /\ last.status = 200
    /\ last.id \in Ids /\ last.id \notin registry
    /\ registry # {}

\* C17: within one broadcast no connection id is sent to twice, and a
\* broadcast that takes its snapshot after another one has finished includes
\* every connection whose send failed there with a non-Gone error and which is
\* still registered.
C17_FailedRetriedByNextBroadcast ==
    [][ \A p \in Procs :
          /\ (inv[p].pc = "send" /\ inv'[p] # inv[p])
                => inv[p].snap[inv[p].idx] \notin inv[p].sent
          /\ (inv[p].pc = "scan" /\ inv'[p].pc = "send")
                => \A q \in Procs \ {p} :
                      Finished(q) =>
                         (inv[q].failed \cap registry) \subseteq Range(inv'[p].snap)
      ]_vars

\* C18: a broadcast never adds a registry entry, and it removes an id only
\* after its own send to that id returned Gone; an id it delivered to is never
\* removed by it.
C18_BroadcastOnlyPrunes ==
    /\ [](\A p \in Procs :
            /\ inv[p].deleted \subseteq inv[p].gone
            /\ inv[p].deleted \cap Delivered(p) = {})
    /\ [][ \A p \in Procs :
             inv'[p] # inv[p] =>
                /\ registry' \subseteq registry
                /\ (registry \ registry') \subseteq inv[p].gone
                /\ (registry \ registry') \cap Delivered(p) = {}
         ]_vars

C18_Witness ==
    \E p \in Procs :
        /\ Finished(p)
        /\ Delivered(p) \cap registry # {}
        /\ inv[p].deleted # {}
        /\ inv[p].deleted \cap registry = {}

\* C19: a broadcast runs only in an invocation whose durable write succeeded;
\* an invocation that is rejected (no user, invalid request, failed write)
\* answers 401, 400 or 500, sends to no connection and leaves the registry
\* alone.
C19_PersistBeforeNotify ==
    /\ [](\A p \in Procs :
            /\ (inv[p].pc \in {"scan", "send", "delete"} \/ inv[p].bstat # "none"
                  \/ inv[p].sent # {} \/ inv[p].deleted # {})
                  => inv[p].wrote
            /\ (inv[p].pc = "done" /\ ~inv[p].wrote)
                  => /\ inv[p].resp \in {401, 400, 500}
                     /\ inv[p].bstat = "none"
                     /\ inv[p].snap = <<>> /\ inv[p].sent = {} /\ inv[p].deleted = {})
    /\ [][ \A p \in Procs :
             (inv[p].pc = "idle" /\ inv'[p].pc = "done") => registry' = registry ]_vars

C19_Witness ==
    \E p \in Procs :
        /\ inv[p].pc = "done" /\ ~inv[p].wrote
        /\ inv[p].kind = "comment" /\ inv[p].resp = 500
        /\ registry # {}

\* C20: unregister_device_handler deletes a device record only when its stored
\* user_id is the caller's; when the store finds another owner or no record,
\* the answer is 403 and the devices table is unchanged; a caller without a
\* user id gets 401 and the store is not contacted.
C20_UnregisterGuardedByOwner ==
    [][ dev'.op = "unregister" =>
          /\ devices' # devices =>
                /\ dev'.player \in Players
                /\ devices[dev'.player] = dev'.user
                /\ devices' = [devices EXCEPT ![dev'.player] = NoUser]
                /\ dev'.status = 200
          /\ (dev'.user \in Users /\ dev'.player \in Players
                /\ devices[dev'.player] # dev'.user)
                => /\ devices' = devices
                   /\ dev'.storage = "ok" => dev'.status = 403
          /\ dev'.user = NoUser
                => (dev'.status = 401 /\ dev'.storage = "none" /\ devices' = devices)
      ]_vars

C20_Witness ==
    /\ dev.op = "unregister" /\ dev.status = 403
    /\ dev.player \in Players
    /\ devices[dev.player] \in Users \ {dev.user}

====
